---------------------------- MODULE Spec2Model ----------------------------
(***************************************************************************)
(* A model of minio/xml_marshal.py: the tree builder (Element,             *)
(* SubElement), the serializer (get_xml_data), the namespace-stripping     *)
(* decoder (xml_to_dict, etree_to_dict) and the marshallers for bucket     *)
(* encryption, complete-multipart-upload and bucket notifications.         *)
(*                                                                         *)
(* Python strings are sequences of tokens (a token is a run of characters  *)
(* the code never looks into), so that str.replace, str.strip and '+' are  *)
(* operations on sequences and none of them is the identity.               *)
(* Python values are tagged records: None, str, dict (insertion-ordered    *)
(* sequence of key/value items) and list.                                  *)
(***************************************************************************)
EXTENDS Integers, Sequences, FiniteSets, TLC

VARIABLES
    pc,      \* position of the caller: which call comes next
    arg,     \* the argument of the call, as it was when the call was made
    tree,    \* the element tree handed to etree_to_dict, as it is now
    data,    \* the bytes a marshaller returned (a sequence of markup tokens)
    result   \* the mapping etree_to_dict returned

vars == <<pc, arg, tree, data, result>>

-----------------------------------------------------------------------------
(* Bounds of the model *)

\* the size of a decoded tree is at most this (see Size)
MaxSize == 4
\* an encryption rule list has at most this many rules
MaxRules == 2
\* an uploaded-part list has at most this many parts
MaxParts == 3
\* a notifications object has at most this many entries, all groups together
MaxConfigs == 2

-----------------------------------------------------------------------------
(* Python values *)

NoneV == [k |-> "None"]
Str(s) == [k |-> "str", s |-> s]
List(l) == [k |-> "list", l |-> l]
Dict(items) == [k |-> "dict", items |-> items]

IsNone(v) == v.k = "None"
IsStr(v) == v.k = "str"
IsList(v) == v.k = "list"
IsDict(v) == v.k = "dict"

\* truth value of an optional string: None and '' are false
Truthy(v) == IsStr(v) /\ v.s # <<>>

Item(key, val) == [key |-> key, val |-> val]

DictHas(items, key) == \E i \in 1..Len(items) : items[i].key = key

DictGet(items, key) ==
    items[CHOOSE i \in 1..Len(items) : items[i].key = key].val

\* d[key] = val: an existing key keeps its place, a new key goes last
DictSet(items, key, val) ==
    IF DictHas(items, key)
    THEN [i \in 1..Len(items) |->
            IF items[i].key = key THEN Item(key, val) ELSE items[i]]
    ELSE Append(items, Item(key, val))

DictKeys(items) == {items[i].key : i \in 1..Len(items)}

-----------------------------------------------------------------------------
(* Strings *)

_S3_NAMESPACE == "http://s3.amazonaws.com/doc/2006-03-01/"

\* the tag prefix of a namespace-qualified element: '{' + _S3_NAMESPACE + '}'
ns == "{" \o _S3_NAMESPACE \o "}"

Whitespace == {" ", "\n"}

RECURSIVE LStrip(_)
LStrip(s) ==
    IF s # <<>> /\ Head(s) \in Whitespace THEN LStrip(Tail(s)) ELSE s

RECURSIVE RStrip(_)
RStrip(s) ==
    IF s # <<>> /\ s[Len(s)] \in Whitespace
    THEN RStrip(SubSeq(s, 1, Len(s) - 1))
    ELSE s

\* str.strip()
Strip(s) == RStrip(LStrip(s))

\* replace called with the bare URI instead of the braced prefix: the braces
\* of a qualified tag stay behind
ReplaceUriOnly(s, old) ==
    [i \in 1..Len(s) |-> IF s[i] = old THEN "{}" ELSE s[i]]

\* str.replace(old, ''), old being one token
Replace(s, old) == SelectSeq(s, LAMBDA t : t # old)

-----------------------------------------------------------------------------
(* Element trees *)

\* xml.etree.ElementTree.Element: tag, attrib (ordered), text, children
Node(tag, attrib, text, children) ==
    [tag |-> tag, attrib |-> attrib, text |-> text, children |-> children]

Element(tag, with_namespace) ==
    IF with_namespace
    THEN Node(tag, <<Item(<<"xmlns">>, <<_S3_NAMESPACE>>)>>, NoneV, <<>>)
    ELSE Node(tag, <<>>, NoneV, <<>>)

\* the child SubElement(parent, tag, text) creates
SubElement(tag, text) == Node(tag, <<>>, text, <<>>)

\* parent after a child has been appended to it
WithChild(parent, child) ==
    [parent EXCEPT !.children = Append(@, child)]

-----------------------------------------------------------------------------
(* etree_to_dict *)

\* dd[k].append(v) on a defaultdict(list)
DefaultDictAppend(dd, key, v) ==
    IF DictHas(dd, key)
    THEN DictSet(dd, key, Append(DictGet(dd, key), v))
    ELSE Append(dd, Item(key, <<v>>))

\* the two loops over map(etree_to_dict, children): calls are the calls on
\* the children, wrap tells whether the first child is a Rule
RECURSIVE CollectChildren(_, _, _)
CollectChildren(dd, calls, wrap) ==
    IF calls = <<>> THEN dd
    ELSE LET kv == Head(calls).ret.items[1]
             v == IF wrap THEN List(<<kv.val>>) ELSE kv.val
         IN CollectChildren(DefaultDictAppend(dd, kv.key, v), Tail(calls), wrap)

\* dict(dd): no group is unwrapped
RECURSIVE CollapseNever(_)
CollapseNever(dd) ==
    IF dd = <<>> THEN <<>>
    ELSE <<Item(Head(dd).key, List(Head(dd).val))>> \o CollapseNever(Tail(dd))

\* {k: v[0] if len(v) == 1 else v for k, v in dd.items()}
RECURSIVE Collapse(_)
Collapse(dd) ==
    IF dd = <<>> THEN <<>>
    ELSE LET v == Head(dd).val
         IN <<Item(Head(dd).key, IF Len(v) = 1 THEN v[1] ELSE List(v))>>
            \o Collapse(Tail(dd))

\* d[elem.tag].update(('@' + k, v) for k, v in elem.attrib.items())
RECURSIVE UpdateAttrib(_, _)
UpdateAttrib(items, attrib) ==
    IF attrib = <<>> THEN items
    ELSE UpdateAttrib(
            DictSet(items, <<"@">> \o Head(attrib).key, Str(Head(attrib).val)),
            Tail(attrib))

\* whether the first child's tag, namespace stripped, is 'Rule'
FirstChildIsRule(children) ==
    children # <<>> /\ Replace(children[1].tag, ns) = <<"Rule">>

\* '#text' set without looking at the stripped text
MergeTextUnchecked(value, elem) ==
    IF Truthy(elem.text)
    THEN LET text == Strip(elem.text.s)
         IN IF elem.children # <<>> \/ elem.attrib # <<>>
            THEN Dict(DictSet(value.items, <<"#text">>, Str(text)))
            ELSE Str(text)
    ELSE value

\* the value stored under elem.tag once attributes and text are merged in
MergeText(value, elem) ==
    IF Truthy(elem.text)
    THEN LET text == Strip(elem.text.s)
         IN IF elem.children # <<>> \/ elem.attrib # <<>>
            THEN IF text # <<>>
                 THEN Dict(DictSet(value.items, <<"#text">>, Str(text)))
                 ELSE value
            ELSE Str(text)
    ELSE value

\* the trees a sequence of calls leaves
RECURSIVE ElemsOf(_)
ElemsOf(calls) ==
    IF calls = <<>> THEN <<>> ELSE <<Head(calls).elem>> \o ElemsOf(Tail(calls))

\* etree_to_dict(elem): ret is the dict returned, elem the tree as the call
\* leaves it (elem.tag is assigned on every element visited);
\* MapEtreeToDict is map(etree_to_dict, children)
RECURSIVE etree_to_dict(_), MapEtreeToDict(_)
etree_to_dict(elem) ==
    LET tag == Replace(elem.tag, ns)
        children == elem.children
        calls == MapEtreeToDict(children)
        d0 == IF elem.attrib # <<>> THEN Dict(<<>>) ELSE NoneV
        d1 == IF children # <<>>
              THEN Dict(Collapse(
                      CollectChildren(<<>>, calls, FirstChildIsRule(children))))
              ELSE d0
        d2 == IF elem.attrib # <<>>
              THEN Dict(UpdateAttrib(d1.items, elem.attrib))
              ELSE d1
        d3 == MergeText(d2, elem)
    IN [ret |-> Dict(<<Item(tag, d3)>>),
        elem |-> Node(tag, elem.attrib, elem.text, ElemsOf(calls))]

MapEtreeToDict(children) ==
    IF children = <<>> THEN <<>>
    ELSE <<etree_to_dict(Head(children))>> \o MapEtreeToDict(Tail(children))

-----------------------------------------------------------------------------
(* Inputs of the decoder *)

TagNames == {<<"Rule">>, <<"Item">>}

\* a tag as the parser gives it: bare, or qualified with the S3 namespace
Tags == TagNames \cup {<<ns>> \o n : n \in TagNames}

Attribs == {<<>>, <<Item(<<"id">>, <<"7">>)>>}

Texts == {NoneV, Str(<<>>), Str(<<" ">>), Str(<<" ", "x", "\n">>)}

\* an element without its children
Shell(tag, attrib, text) == [tag |-> tag, attrib |-> attrib, text |-> text]

Shells == {Shell(t, a, x) : t \in Tags, a \in Attribs, x \in Texts}

\* an element that carries attributes or text counts twice
Weight(e) == IF e.attrib # <<>> \/ ~IsNone(e.text) THEN 2 ELSE 1

\* the size of a tree: the weights of its elements
RECURSIVE Size(_), SizeAll(_)
Size(e) == Weight(e) + SizeAll(e.children)

SizeAll(es) == IF es = <<>> THEN 0 ELSE Size(Head(es)) + SizeAll(Tail(es))

\* how many elements are open below the root when the last one was added
RECURSIVE OpenDepth(_)
OpenDepth(e) ==
    IF e.children = <<>> THEN 0
    ELSE 1 + OpenDepth(e.children[Len(e.children)])

\* the tree with child appended to the open element at the given depth
RECURSIVE AppendAt(_, _, _)
AppendAt(e, depth, child) ==
    IF depth = 0 THEN WithChild(e, child)
    ELSE [e EXCEPT !.children[Len(e.children)] = AppendAt(@, depth - 1, child)]

-----------------------------------------------------------------------------
(* A tree built in document order, then decoded, and decoded again *)

InitDecode ==
    /\ pc = "build"
    /\ \E s \in Shells : tree = Node(s.tag, s.attrib, s.text, <<>>)
    /\ Size(tree) <= MaxSize
    /\ arg = NoneV
    /\ data = <<>>
    /\ result = NoneV

\* the next element of the document is appended to one of the open elements,
\* as ET.XML does for each start tag and a caller does with SubElement
AddElement ==
    /\ pc = "build"
    /\ \E s \in Shells, depth \in 0..OpenDepth(tree) :
          /\ Size(tree) + Weight(s) <= MaxSize
          /\ tree' = AppendAt(tree, depth, Node(s.tag, s.attrib, s.text, <<>>))
    /\ UNCHANGED <<pc, arg, data, result>>

\* xml_to_dict's call of etree_to_dict on the tree ET.XML returned, or a
\* caller's own call on a tree it holds
Decode ==
    /\ pc = "build"
    /\ arg' = tree
    /\ LET call == etree_to_dict(tree)
       IN /\ result' = call.ret
          /\ tree' = call.elem
    /\ pc' = "decoded"
    /\ UNCHANGED data

\* a second call on the tree object the first call was given
DecodeAgain ==
    /\ pc = "decoded"
    /\ LET call == etree_to_dict(tree)
       IN /\ result' = call.ret
          /\ tree' = call.elem
    /\ pc' = "decoded twice"
    /\ UNCHANGED <<arg, data>>

NextDecode == AddElement \/ Decode \/ DecodeAgain

SpecDecode == InitDecode /\ [][NextDecode]_vars

-----------------------------------------------------------------------------
(* Serializer and parser *)

StartTag(tag, attrib) == [t |-> "start", tag |-> tag, attrib |-> attrib]
EmptyTag(tag, attrib) == [t |-> "empty", tag |-> tag, attrib |-> attrib]
EndTag(tag) == [t |-> "end", tag |-> tag]
TextData(s) == [t |-> "text", s |-> s]

\* get_xml_data(element): the document ElementTree.write renders, without
\* declaration; an element without text and children is written <tag />.
\* (The texts of the model hold no character that write would escape.)
RECURSIVE get_xml_data(_), WriteAll(_)
get_xml_data(element) ==
    IF Truthy(element.text) \/ element.children # <<>>
    THEN <<StartTag(element.tag, element.attrib)>>
         \o (IF Truthy(element.text) THEN <<TextData(element.text.s)>>
             ELSE <<>>)
         \o WriteAll(element.children)
         \o <<EndTag(element.tag)>>
    ELSE <<EmptyTag(element.tag, element.attrib)>>

WriteAll(elements) ==
    IF elements = <<>> THEN <<>>
    ELSE get_xml_data(Head(elements)) \o WriteAll(Tail(elements))

\* the default namespace in scope after a start tag with these attributes
ScopeAfter(scope, attrib) ==
    IF DictHas(attrib, <<"xmlns">>) THEN DictGet(attrib, <<"xmlns">>)
    ELSE scope

\* the tag the parser gives an element inside the default namespace scope
Qualified(tag, scope) ==
    IF scope = <<>> THEN tag ELSE <<"{" \o scope[1] \o "}">> \o tag

\* the parser keeps namespace declarations out of attrib
PlainAttrib(attrib) == SelectSeq(attrib, LAMBDA a : a.key # <<"xmlns">>)

\* ET.XML from token i on: the element that starts there and the position
\* after it; ParseContent reads children up to the enclosing end tag
RECURSIVE ParseElement(_, _, _), ParseContent(_, _, _, _)
ParseElement(doc, i, scope) ==
    LET tok == doc[i]
        inner == ScopeAfter(scope, tok.attrib)
        tag == Qualified(tok.tag, inner)
        attrib == PlainAttrib(tok.attrib)
    IN IF tok.t = "empty"
       THEN [node |-> Node(tag, attrib, NoneV, <<>>), next |-> i + 1]
       ELSE LET hasText == doc[i + 1].t = "text"
                text == IF hasText THEN Str(doc[i + 1].s) ELSE NoneV
                body == ParseContent(doc, IF hasText THEN i + 2 ELSE i + 1,
                                     inner, <<>>)
            IN [node |-> Node(tag, attrib, text, body.children),
                next |-> body.next + 1]

ParseContent(doc, i, scope, children) ==
    IF doc[i].t = "end" THEN [children |-> children, next |-> i]
    ELSE LET child == ParseElement(doc, i, scope)
         IN ParseContent(doc, child.next, scope, Append(children, child.node))

\* ET.XML(in_xml)
XML(in_xml) == ParseElement(in_xml, 1, <<>>).node

\* xml_to_dict(in_xml): ret and the tree it built and handed to etree_to_dict
xml_to_dict(in_xml) == etree_to_dict(XML(in_xml))

-----------------------------------------------------------------------------
(* Marshallers *)

\* dict.get(key, default) on a marshaller's argument
Get(d, key, default) == IF key \in DOMAIN d THEN d[key] ELSE default

\* parent with the children appended one after the other
RECURSIVE WithChildren(_, _)
WithChildren(parent, children) ==
    IF children = <<>> THEN parent
    ELSE WithChildren(WithChild(parent, Head(children)), Tail(children))

\* the key id tested with 'is not None' instead of for truth
EncryptionRootKeyNotNone(rules) ==
    LET root == Element(<<"ServerSideEncryptionConfiguration">>, FALSE)
    IN IF rules # <<>>
       THEN LET first == rules[1]["ApplyServerSideEncryptionByDefault"]
                algorithm == Get(first, "SSEAlgorithm", Str(<<"AES256">>))
                kms_text == Get(first, "KMSMasterKeyID", NoneV)
                apply0 == WithChild(
                              SubElement(<<"ApplyServerSideEncryptionByDefault">>,
                                         NoneV),
                              SubElement(<<"SSEAlgorithm">>, algorithm))
                apply_element ==
                    IF ~IsNone(kms_text)
                    THEN WithChild(apply0,
                                   SubElement(<<"KMSMasterKeyID">>, kms_text))
                    ELSE apply0
            IN WithChild(root,
                         WithChild(SubElement(<<"Rule">>, NoneV), apply_element))
       ELSE root

\* the tree xml_marshal_bucket_encryption builds
EncryptionRoot(rules) ==
    LET root == Element(<<"ServerSideEncryptionConfiguration">>, FALSE)
    IN IF rules # <<>>
       THEN LET first == rules[1]["ApplyServerSideEncryptionByDefault"]
                algorithm == Get(first, "SSEAlgorithm", Str(<<"AES256">>))
                kms_text == Get(first, "KMSMasterKeyID", NoneV)
                apply0 == WithChild(
                              SubElement(<<"ApplyServerSideEncryptionByDefault">>,
                                         NoneV),
                              SubElement(<<"SSEAlgorithm">>, algorithm))
                apply_element ==
                    IF Truthy(kms_text)
                    THEN WithChild(apply0,
                                   SubElement(<<"KMSMasterKeyID">>, kms_text))
                    ELSE apply0
            IN WithChild(root,
                         WithChild(SubElement(<<"Rule">>, NoneV), apply_element))
       ELSE root

xml_marshal_bucket_encryption(rules) == get_xml_data(EncryptionRoot(rules))

Digits == <<"0", "1", "2", "3", "4", "5", "6", "7", "8", "9">>

\* str(n) for n >= 0: the decimal digits, most significant first
RECURSIVE StrOfInt(_)
StrOfInt(n) ==
    IF n < 10 THEN <<Digits[n + 1]>>
    ELSE StrOfInt(n \div 10) \o <<Digits[(n % 10) + 1]>>

\* the Part element of one uploaded part
PartElement(uploaded_part) ==
    WithChildren(SubElement(<<"Part">>, NoneV),
        <<SubElement(<<"PartNumber">>, Str(StrOfInt(uploaded_part.part_number))),
          SubElement(<<"ETag">>,
                     Str(<<"\"">> \o uploaded_part.etag \o <<"\"">>))>>)

\* the parts sorted by part number before they are written
MultipartRootSorted(uploaded_parts) ==
    LET sorted == SortSeq(uploaded_parts,
                          LAMBDA a, b : a.part_number < b.part_number)
    IN WithChildren(Element(<<"CompleteMultipartUpload">>, TRUE),
           [i \in 1..Len(sorted) |-> PartElement(sorted[i])])

\* the tree xml_marshal_complete_multipart_upload builds
MultipartRoot(uploaded_parts) ==
    WithChildren(Element(<<"CompleteMultipartUpload">>, TRUE),
        [i \in 1..Len(uploaded_parts) |-> PartElement(uploaded_parts[i])])

xml_marshal_complete_multipart_upload(uploaded_parts) ==
    get_xml_data(MultipartRoot(uploaded_parts))

NOTIFICATIONS_ARN_FIELDNAME_MAP ==
    [TopicConfiguration |-> <<"Topic">>,
     QueueConfiguration |-> <<"Queue">>,
     CloudFunctionConfiguration |-> <<"CloudFunction">>]

\* the FilterRule element of one filter rule
FilterRuleElement(filter_rule) ==
    WithChildren(SubElement(<<"FilterRule">>, NoneV),
        <<SubElement(<<"Name">>, filter_rule.Name),
          SubElement(<<"Value">>, filter_rule.Value)>>)

\* the element one pass of the loop of _add_notification_config_to_xml adds
ConfigElement(element_name, config) ==
    LET node0 == SubElement(<<element_name>>, NoneV)
        node1 == IF "Id" \in DOMAIN config
                 THEN WithChild(node0, SubElement(<<"Id">>, config.Id))
                 ELSE node0
        node2 == WithChild(node1,
                    SubElement(NOTIFICATIONS_ARN_FIELDNAME_MAP[element_name],
                               config.Arn))
        node3 == WithChildren(node2,
                    [i \in 1..Len(config.Events) |->
                        SubElement(<<"Event">>, config.Events[i])])
        filter_rules ==
            Get(Get(Get(config, "Filter", <<>>), "Key", <<>>),
                "FilterRules", <<>>)
        s3key_node ==
            WithChildren(SubElement(<<"S3Key">>, NoneV),
                [i \in 1..Len(filter_rules) |->
                    FilterRuleElement(filter_rules[i])])
    IN IF filter_rules # <<>>
       THEN WithChild(node3,
                      WithChild(SubElement(<<"Filter">>, NoneV), s3key_node))
       ELSE node3

_add_notification_config_to_xml(node, element_name, configs) ==
    WithChildren(node,
        [i \in 1..Len(configs) |-> ConfigElement(element_name, configs[i])])

\* the queue entries written before the topic entries
NotificationRootQueuesFirst(notifications) ==
    _add_notification_config_to_xml(
        _add_notification_config_to_xml(
            _add_notification_config_to_xml(
                Element(<<"NotificationConfiguration">>, TRUE),
                "QueueConfiguration",
                Get(notifications, "QueueConfigurations", <<>>)),
            "TopicConfiguration",
            Get(notifications, "TopicConfigurations", <<>>)),
        "CloudFunctionConfiguration",
        Get(notifications, "CloudFunctionConfigurations", <<>>))

\* the tree xml_marshal_bucket_notifications builds
NotificationRoot(notifications) ==
    _add_notification_config_to_xml(
        _add_notification_config_to_xml(
            _add_notification_config_to_xml(
                Element(<<"NotificationConfiguration">>, TRUE),
                "TopicConfiguration",
                Get(notifications, "TopicConfigurations", <<>>)),
            "QueueConfiguration",
            Get(notifications, "QueueConfigurations", <<>>)),
        "CloudFunctionConfiguration",
        Get(notifications, "CloudFunctionConfigurations", <<>>))

xml_marshal_bucket_notifications(notifications) ==
    get_xml_data(NotificationRoot(notifications))

-----------------------------------------------------------------------------
(* Inputs of the marshallers *)

SeqsUpTo(S, n) == UNION {[1..m -> S] : m \in 0..n}

\* the dicts with any of the keys of full that optional names, and all others
Optional(full, optional) ==
    {[key \in (DOMAIN full \ drop) |-> full[key]] : drop \in SUBSET optional}

ApplyDefaults ==
    UNION {Optional([SSEAlgorithm |-> a, KMSMasterKeyID |-> kms],
                    {"SSEAlgorithm", "KMSMasterKeyID"}) :
              a \in {Str(<<"AES256">>), Str(<<"aws:kms">>)},
              kms \in {NoneV, Str(<<>>), Str(<<"key-1">>)}}

EncryptionRules ==
    {[ApplyServerSideEncryptionByDefault |-> d] : d \in ApplyDefaults}

UploadedParts ==
    {[part_number |-> n, etag |-> e] :
        n \in {1, 2, 10}, e \in {<<"a1">>, <<"b2">>}}

EventLists ==
    {<<Str(<<"s3:ObjectCreated:*">>)>>,
     <<Str(<<"s3:ObjectRemoved:*">>), Str(<<"s3:ObjectCreated:*">>)>>}

FilterRules ==
    <<[Name |-> Str(<<"suffix">>), Value |-> Str(<<".jpg">>)],
      [Name |-> Str(<<"prefix">>), Value |-> Str(<<"img/">>)]>>

\* Filter dicts: with no rule and with two rules
Filters ==
    {[Key |-> [FilterRules |-> <<>>]], [Key |-> [FilterRules |-> FilterRules]]}

\* the entries of a notifications object: 'Id' and 'Filter' are optional
Configs ==
    UNION {Optional([Id |-> Str(<<"id-1">>), Arn |-> Str(<<"arn:1">>),
                     Events |-> ev, Filter |-> f], {"Id", "Filter"}) :
              ev \in EventLists, f \in Filters}

ConfigGroups ==
    {"TopicConfigurations", "QueueConfigurations",
     "CloudFunctionConfigurations"}

\* how many entries a notifications object holds, all groups together
CountConfigs(notifications) ==
    Len(Get(notifications, "TopicConfigurations", <<>>))
    + Len(Get(notifications, "QueueConfigurations", <<>>))
    + Len(Get(notifications, "CloudFunctionConfigurations", <<>>))

\* notifications.setdefault(group, []).append(config)
WithConfig(notifications, group, config) ==
    [key \in DOMAIN notifications \cup {group} |->
        IF key = group
        THEN Append(Get(notifications, group, <<>>), config)
        ELSE notifications[key]]

-----------------------------------------------------------------------------
(* The marshallers called, each on one argument *)

InitEncryption ==
    /\ pc = "marshal"
    /\ arg \in SeqsUpTo(EncryptionRules, MaxRules)
    /\ tree = NoneV
    /\ data = <<>>
    /\ result = NoneV

MarshalEncryption ==
    /\ pc = "marshal"
    /\ data' = xml_marshal_bucket_encryption(arg)
    /\ pc' = "marshalled"
    /\ UNCHANGED <<arg, tree, result>>

SpecEncryption == InitEncryption /\ [][MarshalEncryption]_vars

InitMultipart ==
    /\ pc = "marshal"
    /\ arg \in SeqsUpTo(UploadedParts, MaxParts)
    /\ tree = NoneV
    /\ data = <<>>
    /\ result = NoneV

MarshalMultipart ==
    /\ pc = "marshal"
    /\ data' = xml_marshal_complete_multipart_upload(arg)
    /\ pc' = "marshalled"
    /\ UNCHANGED <<arg, tree, result>>

SpecMultipart == InitMultipart /\ [][MarshalMultipart]_vars

\* the caller starts from an empty dict
InitNotification ==
    /\ pc = "build"
    /\ arg = <<>>
    /\ tree = NoneV
    /\ data = <<>>
    /\ result = NoneV

\* the caller adds an entry to one of the groups
AddConfig ==
    /\ pc = "build"
    /\ CountConfigs(arg) < MaxConfigs
    /\ \E group \in ConfigGroups, config \in Configs :
          arg' = WithConfig(arg, group, config)
    /\ UNCHANGED <<pc, tree, data, result>>

MarshalNotification ==
    /\ pc = "build"
    /\ data' = xml_marshal_bucket_notifications(arg)
    /\ pc' = "marshalled"
    /\ UNCHANGED <<arg, tree, result>>

\* xml_to_dict on the document the marshaller produced
XmlToDict ==
    /\ pc = "marshalled"
    /\ LET call == xml_to_dict(data)
       IN /\ result' = call.ret
          /\ tree' = call.elem
    /\ pc' = "decoded"
    /\ UNCHANGED <<arg, data>>

NextNotification == AddConfig \/ MarshalNotification \/ XmlToDict

SpecNotification == InitNotification /\ [][NextNotification]_vars

-----------------------------------------------------------------------------
(* What the claims about the decoder speak of *)

Decoded == pc \in {"decoded", "decoded twice"}

\* the tag without its namespace prefix, read off the tag itself
Bare(tag) == IF tag # <<>> /\ Head(tag) = ns THEN Tail(tag) ELSE tag

\* the value the returned dict holds under the root's tag
RootValue == result.items[1].val

\* the decoded value of one element
Decoded1(e) == etree_to_dict(e).ret.items[1].val

\* the root's children whose bare tag is name, in document order
ChildrenTagged(name) == SelectSeq(arg.children, LAMBDA c : Bare(c.tag) = name)

\* their decoded values, in document order
ValuesTagged(name) ==
    [i \in 1..Len(ChildrenTagged(name)) |-> Decoded1(ChildrenTagged(name)[i])]

RECURSIVE NodesOf(_)
NodesOf(e) ==
    {e} \cup UNION {NodesOf(e.children[i]) : i \in 1..Len(e.children)}

\* every key of every dict inside a value, at any depth
RECURSIVE KeysOf(_)
KeysOf(v) ==
    IF IsDict(v)
    THEN DictKeys(v.items)
         \cup UNION {KeysOf(v.items[i].val) : i \in 1..Len(v.items)}
    ELSE IF IsList(v)
    THEN UNION {KeysOf(v.l[i]) : i \in 1..Len(v.l)}
    ELSE {}

IsElementKey(key) == key # <<"#text">> /\ (key = <<>> \/ Head(key) # "@")

ElementKeys(v) == {key \in KeysOf(v) : IsElementKey(key)}

\* how many children an entry of a mapping stands for
EntryCount(v) == IF IsList(v) THEN Len(v.l) ELSE 1

\* t is s without its leading and trailing whitespace
IsTrimOf(t, s) ==
    /\ \E i \in 1..(Len(s) + 1), j \in 0..Len(s) :
          /\ t = SubSeq(s, i, j)
          /\ \A m \in 1..Len(s) : (m < i \/ m > j) => s[m] \in Whitespace
    /\ t # <<>> => (t[1] \notin Whitespace /\ t[Len(t)] \notin Whitespace)

-----------------------------------------------------------------------------
(* C1: an element with exactly one child whose bare tag is Rule, wherever   *)
(* that child stands among its siblings, maps 'Rule' to a list of exactly   *)
(* one element, the decoded value of that child.                            *)
C1_SingleRuleIsWrapped ==
    (Decoded /\ Len(ChildrenTagged(<<"Rule">>)) = 1) =>
        /\ IsDict(RootValue)
        /\ DictHas(RootValue.items, <<"Rule">>)
        /\ DictGet(RootValue.items, <<"Rule">>)
              = List(<<ValuesTagged(<<"Rule">>)[1]>>)

(* C2: an element without a Rule child has no 'Rule' key; with n >= 2 Rule  *)
(* children the 'Rule' entry is the list of the n decoded values            *)
(* themselves, in document order.                                           *)
C2_RuleAbsentOrList ==
    Decoded =>
        LET n == Len(ChildrenTagged(<<"Rule">>))
        IN /\ (n = 0 /\ IsDict(RootValue)) =>
                  ~DictHas(RootValue.items, <<"Rule">>)
           /\ n >= 2 =>
                  /\ IsDict(RootValue)
                  /\ DictHas(RootValue.items, <<"Rule">>)
                  /\ DictGet(RootValue.items, <<"Rule">>)
                        = List(ValuesTagged(<<"Rule">>))

(* C3: for every child tag other than Rule, one occurrence gives the        *)
(* child's decoded value itself and k >= 2 occurrences give the list of     *)
(* the k decoded values in document order, whatever the parent's other      *)
(* children are.                                                            *)
C3_OtherTagsScalarOrList ==
    Decoded =>
        \A name \in TagNames \ {<<"Rule">>} :
            LET k == Len(ChildrenTagged(name))
            IN k >= 1 =>
                /\ IsDict(RootValue)
                /\ DictHas(RootValue.items, name)
                /\ DictGet(RootValue.items, name)
                      = IF k = 1 THEN ValuesTagged(name)[1]
                        ELSE List(ValuesTagged(name))

(* C4: no key of the returned mapping, at any depth, still holds the        *)
(* namespace prefix; the element keys are exactly the bare tags of the      *)
(* document's elements; and children that differ only in carrying the       *)
(* namespace are grouped under one key.                                     *)
C4_NamespaceStripped ==
    Decoded =>
        /\ \A key \in KeysOf(result) : \A i \in 1..Len(key) : key[i] # ns
        /\ ElementKeys(result) = {Bare(e.tag) : e \in NodesOf(arg)}
        /\ arg.children # <<>> =>
              /\ IsDict(RootValue)
              /\ {key \in DictKeys(RootValue.items) : IsElementKey(key)}
                    = {Bare(arg.children[i].tag) : i \in 1..Len(arg.children)}
              /\ \A i \in 1..Len(RootValue.items) :
                    LET it == RootValue.items[i]
                    IN /\ IsElementKey(it.key) =>
                            EntryCount(it.val) = Len(ChildrenTagged(it.key))
                       /\ \A j \in 1..Len(RootValue.items) :
                            RootValue.items[j].key = it.key => j = i

\* a decoded document with the namespace on a grandchild and two children
\* that differ only in carrying the namespace
C4_Witness ==
    /\ Decoded
    /\ Len(arg.children) >= 2
    /\ arg.children[1].tag = <<ns>> \o arg.children[2].tag
    /\ \E i \in 1..Len(arg.children) :
          /\ arg.children[i].children # <<>>
          /\ Head(arg.children[i].children[1].tag) = ns

\* the value of an element that has attributes or children
MappingHoldsAttribAndText ==
    /\ IsDict(RootValue)
    /\ \A i \in 1..Len(arg.attrib) :
          /\ DictHas(RootValue.items, <<"@">> \o arg.attrib[i].key)
          /\ DictGet(RootValue.items, <<"@">> \o arg.attrib[i].key)
                = Str(arg.attrib[i].val)
    /\ DictHas(RootValue.items, <<"#text">>)
          <=> (IsStr(arg.text) /\ ~IsTrimOf(<<>>, arg.text.s))
    /\ DictHas(RootValue.items, <<"#text">>) =>
          /\ IsStr(DictGet(RootValue.items, <<"#text">>))
          /\ IsTrimOf(DictGet(RootValue.items, <<"#text">>).s, arg.text.s)

IsLeaf == arg.attrib = <<>> /\ arg.children = <<>>

(* C5 as stated: (a) an element with neither attributes nor children has    *)
(* its trimmed text as value, or None if its text is absent; (b) one with   *)
(* attributes or children has a mapping with an '@name' entry per           *)
(* attribute and '#text' exactly when the trimmed text is non-empty.        *)
C5_AsStated ==
    Decoded =>
        /\ IsLeaf =>
              IF IsNone(arg.text) THEN IsNone(RootValue)
              ELSE IsStr(RootValue) /\ IsTrimOf(RootValue.s, arg.text.s)
        /\ ~IsLeaf => MappingHoldsAttribAndText

(* C5 amended: as C5, but in (a) the value is None if the text is absent    *)
(* or the empty string, and the trimmed text otherwise.                     *)
C5_TextValue ==
    Decoded =>
        /\ IsLeaf =>
              IF IsNone(arg.text) \/ arg.text = Str(<<>>) THEN IsNone(RootValue)
              ELSE IsStr(RootValue) /\ IsTrimOf(RootValue.s, arg.text.s)
        /\ ~IsLeaf => MappingHoldsAttribAndText

\* a decoded element with an attribute, a child and text around whitespace
C5_Witness ==
    /\ Decoded
    /\ arg.attrib # <<>>
    /\ arg.children # <<>>
    /\ arg.text = Str(<<" ", "x", "\n">>)
    /\ DictGet(RootValue.items, <<"#text">>) = Str(<<"x">>)

(* C10: etree_to_dict leaves its argument as it was: every element of the   *)
(* tree has the tag, attributes, text and children it had before the call.  *)
C10_ArgumentUnchanged == Decoded => tree = arg

-----------------------------------------------------------------------------
(* What the claims about the marshallers speak of *)

Marshalled == pc = "marshalled"

\* the document a reader of the marshaller's bytes sees
Document == XML(data)

\* the text content of an element of a document
Content(e) == IF IsStr(e.text) THEN e.text.s ELSE <<>>

\* the bare tags of an element's children, in document order
ChildTags(e) == [i \in 1..Len(e.children) |-> Bare(e.children[i].tag)]

\* whether every element of a document is in the S3 namespace
RECURSIVE AllNamespaced(_)
AllNamespaced(e) ==
    /\ e.tag # <<>> /\ Head(e.tag) = ns
    /\ \A i \in 1..Len(e.children) : AllNamespaced(e.children[i])

\* the number a sequence of decimal digits stands for
RECURSIVE IntOfDigits(_)
IntOfDigits(s) ==
    IF s = <<>> THEN 0
    ELSE 10 * IntOfDigits(SubSeq(s, 1, Len(s) - 1))
         + (CHOOSE d \in 0..9 : Digits[d + 1] = s[Len(s)])

IsDecimalOf(s, n) ==
    /\ s # <<>>
    /\ \A i \in 1..Len(s) : \E d \in 0..9 : Digits[d + 1] = s[i]
    /\ Len(s) > 1 => s[1] # "0"
    /\ IntOfDigits(s) = n

(* C7: the document is a namespaced CompleteMultipartUpload whose children  *)
(* are one Part per input part in the caller's order; the i-th Part holds   *)
(* PartNumber, the decimal text of the i-th part number, then ETag, the     *)
(* i-th etag between two double quotes.                                     *)
C7_PartsInCallerOrder ==
    Marshalled =>
        /\ Document.tag = <<ns, "CompleteMultipartUpload">>
        /\ AllNamespaced(Document)
        /\ Len(Document.children) = Len(arg)
        /\ \A i \in 1..Len(arg) :
              LET part == Document.children[i]
              IN /\ Bare(part.tag) = <<"Part">>
                 /\ ChildTags(part) = <<<<"PartNumber">>, <<"ETag">>>>
                 /\ IsDecimalOf(Content(part.children[1]), arg[i].part_number)
                 /\ LET etag == Content(part.children[2])
                    IN /\ Len(etag) = Len(arg[i].etag) + 2
                       /\ etag[1] = "\""
                       /\ etag[Len(etag)] = "\""
                       /\ SubSeq(etag, 2, Len(etag) - 1) = arg[i].etag

\* a marshalled list that is neither sorted nor free of duplicates
C7_Witness ==
    /\ Marshalled
    /\ Len(arg) = 3
    /\ arg[1].part_number = 10
    /\ arg[2].part_number = 1
    /\ arg[3] = arg[1]
    /\ Len(Document.children) = 3

\* the filter rules of an entry, read off its keys
RulesOf(config) ==
    IF "Filter" \in DOMAIN config
    THEN IF "Key" \in DOMAIN config.Filter
         THEN IF "FilterRules" \in DOMAIN config.Filter.Key
              THEN config.Filter.Key.FilterRules
              ELSE <<>>
         ELSE <<>>
    ELSE <<>>

\* the entries of a group, an absent group having none
GroupOf(notifications, group) ==
    IF group \in DOMAIN notifications THEN notifications[group] ELSE <<>>

\* e is the element of an entry: Id if given, the ARN element, the events,
\* and a Filter block if the entry has filter rules
IsConfigElement(e, element_name, arn_name, config) ==
    LET hasId == "Id" \in DOMAIN config
        first == IF hasId THEN 2 ELSE 1
        events == Len(config.Events)
        rules == RulesOf(config)
    IN /\ Bare(e.tag) = <<element_name>>
       /\ Len(e.children)
             = first + events + (IF rules # <<>> THEN 1 ELSE 0)
       /\ hasId => /\ Bare(e.children[1].tag) = <<"Id">>
                   /\ Content(e.children[1]) = config.Id.s
       /\ Bare(e.children[first].tag) = <<arn_name>>
       /\ Content(e.children[first]) = config.Arn.s
       /\ \A i \in 1..events :
             /\ Bare(e.children[first + i].tag) = <<"Event">>
             /\ Content(e.children[first + i]) = config.Events[i].s
       /\ rules # <<>> =>
             LET filter == e.children[Len(e.children)]
             IN /\ Bare(filter.tag) = <<"Filter">>
                /\ ChildTags(filter) = <<<<"S3Key">>>>
                /\ Len(filter.children[1].children) = Len(rules)
                /\ \A i \in 1..Len(rules) :
                      LET rule == filter.children[1].children[i]
                      IN /\ Bare(rule.tag) = <<"FilterRule">>
                         /\ ChildTags(rule) = <<<<"Name">>, <<"Value">>>>
                         /\ Content(rule.children[1]) = rules[i].Name.s
                         /\ Content(rule.children[2]) = rules[i].Value.s

(* C8: under the namespaced NotificationConfiguration root come the topic   *)
(* entries, then the queue entries, then the cloud-function entries, each   *)
(* group in input order, one element per entry; each element holds Id if    *)
(* and only if the entry has one, the group's ARN element, one Event per    *)
(* event in input order, and a Filter/S3Key block of FilterRule{Name,Value} *)
(* if and only if the entry's filter-rule list is non-empty.                *)
C8_NotificationLayout ==
    Marshalled =>
        LET topics == GroupOf(arg, "TopicConfigurations")
            queues == GroupOf(arg, "QueueConfigurations")
            functions == GroupOf(arg, "CloudFunctionConfigurations")
        IN /\ Document.tag = <<ns, "NotificationConfiguration">>
           /\ AllNamespaced(Document)
           /\ Len(Document.children)
                 = Len(topics) + Len(queues) + Len(functions)
           /\ \A i \in 1..Len(topics) :
                 IsConfigElement(Document.children[i],
                                 "TopicConfiguration", "Topic", topics[i])
           /\ \A i \in 1..Len(queues) :
                 IsConfigElement(Document.children[Len(topics) + i],
                                 "QueueConfiguration", "Queue", queues[i])
           /\ \A i \in 1..Len(functions) :
                 IsConfigElement(
                     Document.children[Len(topics) + Len(queues) + i],
                     "CloudFunctionConfiguration", "CloudFunction",
                     functions[i])

\* a marshalled object whose queue entry was added before its topic entry,
\* one of them with Id, two events and filter rules, the other without
C8_Witness ==
    /\ Marshalled
    /\ Len(GroupOf(arg, "TopicConfigurations")) = 1
    /\ Len(GroupOf(arg, "QueueConfigurations")) = 1
    /\ "Id" \in DOMAIN arg.TopicConfigurations[1]
    /\ Len(arg.TopicConfigurations[1].Events) = 2
    /\ RulesOf(arg.TopicConfigurations[1]) # <<>>
    /\ "Id" \notin DOMAIN arg.QueueConfigurations[1]
    /\ "Filter" \notin DOMAIN arg.QueueConfigurations[1]
    /\ Len(Document.children) = 2

(* C9: the document is a ServerSideEncryptionConfiguration without child    *)
(* for an empty rule list and with exactly one Rule otherwise, built from   *)
(* the first rule alone: one ApplyServerSideEncryptionByDefault holding     *)
(* SSEAlgorithm, the first rule's algorithm or AES256 when it names none,   *)
(* and KMSMasterKeyID if and only if the first rule gives a key id, never   *)
(* an empty one.                                                            *)
C9_FirstRuleOnly ==
    Marshalled =>
        /\ Document.tag = <<"ServerSideEncryptionConfiguration">>
        /\ arg = <<>> => Document.children = <<>>
        /\ arg # <<>> =>
              LET first == arg[1].ApplyServerSideEncryptionByDefault
                  hasKey == /\ "KMSMasterKeyID" \in DOMAIN first
                            /\ IsStr(first.KMSMasterKeyID)
                            /\ first.KMSMasterKeyID.s # <<>>
              IN /\ ChildTags(Document) = <<<<"Rule">>>>
                 /\ ChildTags(Document.children[1])
                       = <<<<"ApplyServerSideEncryptionByDefault">>>>
                 /\ LET apply == Document.children[1].children[1]
                    IN /\ ChildTags(apply)
                             = IF hasKey
                               THEN <<<<"SSEAlgorithm">>, <<"KMSMasterKeyID">>>>
                               ELSE <<<<"SSEAlgorithm">>>>
                       /\ Content(apply.children[1])
                             = IF "SSEAlgorithm" \in DOMAIN first
                               THEN first.SSEAlgorithm.s
                               ELSE <<"AES256">>
                       /\ hasKey =>
                             /\ Content(apply.children[2])
                                   = first.KMSMasterKeyID.s
                             /\ Content(apply.children[2]) # <<>>

\* a marshalled list whose first rule names neither algorithm nor key and
\* whose second rule names both
C9_Witness ==
    /\ Marshalled
    /\ Len(arg) = 2
    /\ DOMAIN arg[1].ApplyServerSideEncryptionByDefault = {}
    /\ DOMAIN arg[2].ApplyServerSideEncryptionByDefault
          = {"SSEAlgorithm", "KMSMasterKeyID"}
    /\ arg[2].ApplyServerSideEncryptionByDefault.SSEAlgorithm
          = Str(<<"aws:kms">>)
    /\ arg[2].ApplyServerSideEncryptionByDefault.KMSMasterKeyID
          = Str(<<"key-1">>)
    /\ Len(Document.children) = 1

\* the decoded notification document has exactly two TopicConfiguration
\* children
TwoTopicsDecoded ==
    /\ pc = "decoded"
    /\ Len(GroupOf(arg, "TopicConfigurations")) = 2

\* the list under 'TopicConfiguration'
TopicEntries == DictGet(RootValue.items, <<"TopicConfiguration">>)

(* C6 as stated: the 'TopicConfiguration' entry is a list of two mappings   *)
(* in document order, and in each of them 'Event' is a list of that         *)
(* configuration's events in order, a list also for a single event.         *)
C6_AsStated ==
    TwoTopicsDecoded =>
        /\ IsDict(RootValue)
        /\ DictHas(RootValue.items, <<"TopicConfiguration">>)
        /\ IsList(TopicEntries)
        /\ Len(TopicEntries.l) = 2
        /\ \A i \in 1..2 :
              /\ IsDict(TopicEntries.l[i])
              /\ DictHas(TopicEntries.l[i].items, <<"Event">>)
              /\ DictGet(TopicEntries.l[i].items, <<"Event">>)
                    = List(arg.TopicConfigurations[i].Events)

(* C6 amended: the 'TopicConfiguration' entry is a list of two mappings in  *)
(* document order, and in each of them 'Event' is the list of that          *)
(* configuration's events in order when it has two or more events, and the  *)
(* event itself, not a list, when it has one.                               *)
C6_EventListOrScalar ==
    TwoTopicsDecoded =>
        /\ IsDict(RootValue)
        /\ DictHas(RootValue.items, <<"TopicConfiguration">>)
        /\ IsList(TopicEntries)
        /\ Len(TopicEntries.l) = 2
        /\ \A i \in 1..2 :
              LET events == arg.TopicConfigurations[i].Events
              IN /\ IsDict(TopicEntries.l[i])
                 /\ DictHas(TopicEntries.l[i].items, <<"Event">>)
                 /\ DictGet(TopicEntries.l[i].items, <<"Event">>)
                       = IF Len(events) = 1 THEN events[1] ELSE List(events)

\* two decoded topic configurations, the first with one event and the
\* second with two
C6_Witness ==
    /\ TwoTopicsDecoded
    /\ Len(arg.TopicConfigurations[1].Events) = 1
    /\ Len(arg.TopicConfigurations[2].Events) = 2
    /\ IsList(TopicEntries)

=============================================================================
